---------------------------- MODULE Spec2Model ----------------------------
(***************************************************************************)
(* RepRech/server.py: ingestion of fixed-width rejection reports into a    *)
(* keyed SQLite table, with a paginated query, a resolved toggle and a     *)
(* bulk clear.                                                             *)
(*                                                                         *)
(* Text is a sequence of Unicode code points, a file is a sequence of      *)
(* bytes.  The character tables cover U+0000..U+00FF, the combining marks  *)
(* U+0300..U+036F and the white space of str.isspace(); every other code   *)
(* point is a letter without case and without decomposition.               *)
(***************************************************************************)
EXTENDS Integers, Sequences, FiniteSets, TLC

VARIABLES
    rows,      \* the table "rows" of data.db: the committed rows
    clock,     \* time.time() in milliseconds, as last read
    resp,      \* the request served last and its response
    served,    \* the number of requests served, and of uploads among them
    conn,      \* the requests in flight, each with its sqlite3 connection
    arg,       \* the input of the function under study (function-level specifications)
    ret        \* its result

vars == <<rows, clock, resp, served, conn, arg, ret>>

---------------------------------------------------------------------------
(* Python str and bytes primitives                                         *)

\* str.isspace(): the characters str.strip() removes
IsSpace(c) ==
    c \in ((9..13) \cup (28..32) \cup {133, 160, 5760} \cup (8192..8202)
             \cup {8232, 8233, 8239, 8287, 12288})

\* str.strip()
strip(s) ==
    LET keep == {i \in 1..Len(s) : ~IsSpace(s[i])}
    IN  IF keep = {} THEN <<>>
        ELSE SubSeq(s, CHOOSE i \in keep : \A j \in keep : i <= j,
                       CHOOSE i \in keep : \A j \in keep : j <= i)

\* str.startswith(prefix)
startswith(s, prefix) ==
    /\ Len(prefix) <= Len(s)
    /\ SubSeq(s, 1, Len(prefix)) = prefix

\* s[:n] for n >= 0
Take(s, n) == SubSeq(s, 1, IF n < Len(s) THEN n ELSE Len(s))

\* s[n:] for n >= 0
Drop(s, n) == SubSeq(s, n + 1, Len(s))

\* s[start:end] for 0 <= start, 0 <= end
Slice(s, start, end) ==
    SubSeq(s, start + 1, IF end < Len(s) THEN end ELSE Len(s))

\* str.find(sub): the lowest 0-based index where sub occurs, or -1
find(s, sub) ==
    LET hits == {i \in 0..(Len(s) - Len(sub)) : SubSeq(s, i + 1, i + Len(sub)) = sub}
    IN  IF hits = {} THEN -1 ELSE CHOOSE i \in hits : \A j \in hits : i <= j

\* the number of occurrences of character c in s
count(s, c) == Cardinality({i \in 1..Len(s) : s[i] = c})

\* str.lower() of one character
lower(c) ==
    IF c \in 65..90 THEN c + 32
    ELSE IF c \in 192..222 /\ c # 215 THEN c + 32
    ELSE c

\* unicodedata.category(ch) = "Mn": the combining diacritical marks
IsMn(c) == c \in 768..879

\* the canonical decomposition of one character (unicodedata.normalize("NFD", ch))
Decompose(c) ==
    LET grave == {192, 200, 204, 210, 217, 224, 232, 236, 242, 249}
        acute == {193, 201, 205, 211, 218, 221, 225, 233, 237, 243, 250, 253}
        circ  == {194, 202, 206, 212, 219, 226, 234, 238, 244, 251}
        tilde == {195, 209, 213, 227, 241, 245}
        diaer == {196, 203, 207, 214, 220, 228, 235, 239, 246, 252, 255}
        ring  == {197, 229}
        cedil == {199, 231}
        mark  == IF c \in grave THEN 768 ELSE IF c \in acute THEN 769
                 ELSE IF c \in circ THEN 770 ELSE IF c \in tilde THEN 771
                 ELSE IF c \in diaer THEN 776 ELSE IF c \in ring THEN 778
                 ELSE IF c \in cedil THEN 807 ELSE 0
        up    == IF c \in 192..197 THEN 65 ELSE IF c = 199 THEN 67
                 ELSE IF c \in 200..203 THEN 69 ELSE IF c \in 204..207 THEN 73
                 ELSE IF c = 209 THEN 78 ELSE IF c \in 210..214 THEN 79
                 ELSE IF c \in 217..220 THEN 85 ELSE 89
        base  == IF c = 255 THEN 121 ELSE IF c >= 224 THEN
                     (LET d == c - 32 IN
                      IF d \in 192..197 THEN 97 ELSE IF d = 199 THEN 99
                      ELSE IF d \in 200..203 THEN 101 ELSE IF d \in 204..207 THEN 105
                      ELSE IF d = 209 THEN 110 ELSE IF d \in 210..214 THEN 111
                      ELSE IF d \in 217..220 THEN 117 ELSE 121)
                 ELSE up
    IN  IF mark = 0 THEN <<c>> ELSE <<base, mark>>

\* the concatenation of a sequence of sequences
RECURSIVE Concat(_)
Concat(seqs) ==
    IF seqs = <<>> THEN <<>>
    ELSE IF Len(seqs) = 1 THEN seqs[1]
    ELSE LET h == Len(seqs) \div 2
         IN  Concat(SubSeq(seqs, 1, h)) \o Concat(SubSeq(seqs, h + 1, Len(seqs)))

\* unicodedata.normalize("NFD", s)
NFD(s) == Concat([i \in 1..Len(s) |-> Decompose(s[i])])

\* a continuation byte of UTF-8
IsCont(b) == b \in 128..191

\* bytes.decode("utf-8"): the length of the well-formed sequence that starts
\* at bs[i], or 0 when an ill-formed one starts there
Utf8SeqLen(bs, i) ==
    LET n == Len(bs)
        b == bs[i]
        cont(j) == j <= n /\ IsCont(bs[j])
    IN  IF b < 128 THEN 1
        ELSE IF b \in 194..223 THEN (IF cont(i + 1) THEN 2 ELSE 0)
        ELSE IF b = 224 THEN
            (IF i < n /\ bs[i + 1] \in 160..191 /\ cont(i + 2) THEN 3 ELSE 0)
        ELSE IF b = 237 THEN
            (IF i < n /\ bs[i + 1] \in 128..159 /\ cont(i + 2) THEN 3 ELSE 0)
        ELSE IF b \in 225..239 THEN (IF cont(i + 1) /\ cont(i + 2) THEN 3 ELSE 0)
        ELSE IF b = 240 THEN
            (IF i < n /\ bs[i + 1] \in 144..191 /\ cont(i + 2) /\ cont(i + 3)
             THEN 4 ELSE 0)
        ELSE IF b \in 241..243 THEN
            (IF cont(i + 1) /\ cont(i + 2) /\ cont(i + 3) THEN 4 ELSE 0)
        ELSE IF b = 244 THEN
            (IF i < n /\ bs[i + 1] \in 128..143 /\ cont(i + 2) /\ cont(i + 3)
             THEN 4 ELSE 0)
        ELSE 0

\* the code point that the well-formed sequence of k bytes at bs[i] encodes
Utf8CodePoint(bs, i, k) ==
    IF k = 1 THEN bs[i]
    ELSE IF k = 2 THEN (bs[i] - 192) * 64 + (bs[i + 1] - 128)
    ELSE IF k = 3 THEN
        (bs[i] - 224) * 4096 + (bs[i + 1] - 128) * 64 + (bs[i + 2] - 128)
    ELSE (bs[i] - 240) * 262144 + (bs[i + 1] - 128) * 4096
             + (bs[i + 2] - 128) * 64 + (bs[i + 3] - 128)

\* the decoder accepts bs: it starts a sequence at the first byte and after
\* every sequence, so it accepts exactly when the first byte is no
\* continuation byte and every other byte that is none starts a well-formed
\* sequence that the next such byte, or the end, follows
Utf8Valid(bs) ==
    \/ bs = <<>>
    \/ /\ ~IsCont(bs[1])
       /\ \A i \in 1..Len(bs) :
              IsCont(bs[i]) \/
                  LET k == Utf8SeqLen(bs, i)
                  IN  k > 0 /\ (i + k > Len(bs) \/ ~IsCont(bs[i + k]))

\* bytes.decode("utf-8", errors="ignore"): the code points of the well-formed
\* sequences, the bytes of ill-formed ones dropped; on bytes the decoder
\* accepts this is bytes.decode("utf-8")
Utf8DecodeIgnore(bs) ==
    LET starts == SelectSeq([i \in 1..Len(bs) |-> i],
                            LAMBDA i : ~IsCont(bs[i]) /\ Utf8SeqLen(bs, i) > 0)
    IN  [j \in 1..Len(starts) |->
            Utf8CodePoint(bs, starts[j], Utf8SeqLen(bs, starts[j]))]

Utf8Decode(bs) == Utf8DecodeIgnore(bs)

\* str.encode("utf-8") of one code point and of a string (used to write the
\* input files below)
Utf8Bytes(c) ==
    IF c < 128 THEN <<c>>
    ELSE IF c < 2048 THEN <<192 + (c \div 64), 128 + (c % 64)>>
    ELSE IF c < 65536 THEN
        <<224 + (c \div 4096), 128 + ((c \div 64) % 64), 128 + (c % 64)>>
    ELSE <<240 + (c \div 262144), 128 + ((c \div 4096) % 64),
           128 + ((c \div 64) % 64), 128 + (c % 64)>>

Utf8Encode(s) == Concat([i \in 1..Len(s) |-> Utf8Bytes(s[i])])

---------------------------------------------------------------------------
(* TextRepair and DetailNormalizer                                         *)

\* the corruption marker of fix_text: "?"
Marker == 63

\* normalize_detail
normalize_detail(text) ==
    IF text = <<>> THEN <<>>
    ELSE LET normalized == NFD(text)
             stripped   == SelectSeq(normalized, LAMBDA ch : ~IsMn(ch))
         IN  strip([i \in 1..Len(stripped) |-> lower(stripped[i])])

\* value.encode("latin-1") raises UnicodeEncodeError, which fix_text does not
\* catch (it catches UnicodeDecodeError only)
fix_text_raises(value) ==
    /\ value # <<>>
    /\ \E i \in 1..Len(value) : value[i] = Marker
    /\ \E i \in 1..Len(value) : value[i] > 255

\* fix_text, where it returns
fix_text(value) ==
    IF value = <<>> THEN <<>>
    ELSE IF \E i \in 1..Len(value) : value[i] = Marker
         THEN (IF Utf8Valid(value) THEN Utf8Decode(value) ELSE value)
         ELSE value

---------------------------------------------------------------------------
(* Module constants                                                        *)

\* the six column labels, in order; a record is the tuple of its six values
COLUMNS ==
    << <<69, 109, 112, 82, 85, 67>>,                              \* EmpRUC
       <<69, 109, 112, 82, 97, 122, 111, 110, 83, 111, 99, 105, 97, 108>>,
                                                                  \* EmpRazonSocial
       <<69, 109, 112, 78, 111, 109>>,                            \* EmpNom
       <<82, 101, 112, 70, 101, 99, 104, 97>>,                    \* RepFecha
       <<82, 101, 112, 76, 105, 113, 69, 115, 116, 97, 100, 111, 67, 111, 110,
         115, 117, 108, 116, 97>>,                                \* RepLiqEstadoConsulta
       <<82, 101, 112, 68, 101, 116, 97, 108, 108, 101, 82, 101, 99, 104, 97,
         122, 111>> >>                                            \* RepDetalleRechazo

\* the positions of the columns in a record
EmpRUC == 1
RepFecha == 4
RepDetalleRechazo == 6

FALLBACK_POSITIONS == <<0, 12, 124, 165, 189, 209>>

\* "En la fecha de resumen del reporte la condición de emisor
\*  electrónico no estaba vigente"
IGNORED_DETAIL_PREFIXES_RAW ==
    << <<69, 110, 32, 108, 97, 32, 102, 101, 99, 104, 97, 32, 100, 101, 32, 114,
         101, 115, 117, 109, 101, 110, 32, 100, 101, 108, 32, 114, 101, 112, 111,
         114, 116, 101, 32, 108, 97, 32, 99, 111, 110, 100, 105, 99, 105, 243,
         110, 32, 100, 101, 32, 101, 109, 105, 115, 111, 114, 32, 101, 108, 101,
         99, 116, 114, 243, 110, 105, 99, 111, 32, 110, 111, 32, 101, 115, 116,
         97, 98, 97, 32, 118, 105, 103, 101, 110, 116, 101>> >>

IGNORED_DETAIL_PREFIXES == <<normalize_detail(IGNORED_DETAIL_PREFIXES_RAW[1])>>

\* Python's None and SQL's NULL
None == <<-1>>

---------------------------------------------------------------------------
(* ColumnLayoutDetector and FixedWidthParser                               *)

\* str.splitlines()
IsLineBreak(c) == c \in {10, 11, 12, 13, 28, 29, 30, 133, 8232, 8233}

RECURSIVE splitlines(_)
splitlines(s) ==
    IF s = <<>> THEN <<>>
    ELSE LET brk == {i \in 1..Len(s) : IsLineBreak(s[i])}
         IN  IF brk = {} THEN <<s>>
             ELSE LET i == CHOOSE k \in brk : \A m \in brk : k <= m
                      j == IF s[i] = 13 /\ i < Len(s) /\ s[i + 1] = 10
                           THEN i + 1 ELSE i
                  IN  <<SubSeq(s, 1, i - 1)>> \o splitlines(Drop(s, j))

\* a variant of detect_column_positions that falls back label by label
detect_column_positions_partial(header_line) ==
    [k \in 1..Len(COLUMNS) |->
        IF find(header_line, COLUMNS[k]) < 0 THEN FALLBACK_POSITIONS[k]
        ELSE find(header_line, COLUMNS[k])]

\* detect_column_positions: all six offsets, or the fallback layout
detect_column_positions(header_line) ==
    IF \E k \in 1..Len(COLUMNS) : find(header_line, COLUMNS[k]) < 0
    THEN FALLBACK_POSITIONS
    ELSE [k \in 1..Len(COLUMNS) |-> find(header_line, COLUMNS[k])]

\* the slice of column idx (1-based), trimmed, as handed to fix_text
ColumnSlice(line, positions, idx) ==
    LET start == positions[idx]
        end   == IF idx < Len(positions) THEN positions[idx + 1] ELSE Len(line)
    IN  strip(IF start >= Len(line) THEN <<>> ELSE Slice(line, start, end))

\* parse_fixed_width_line raises: fix_text raises on one of the slices
parse_fixed_width_line_raises(line, positions) ==
    \E idx \in 1..Len(positions) : fix_text_raises(ColumnSlice(line, positions, idx))

\* parse_fixed_width_line, where it returns: a record, or None
parse_fixed_width_line(line, positions) ==
    LET values == [idx \in 1..Len(positions) |->
                      fix_text(ColumnSlice(line, positions, idx))]
    IN  IF values = <<>> \/ values[1] = <<>> THEN None
        ELSE [k \in 1..Len(COLUMNS) |-> IF k <= Len(values) THEN values[k] ELSE <<>>]

\* the loop of parse_rpt: the data lines, each (null-stripped) with the layout
\* in force when it is parsed; column_positions = None before any header
RECURSIVE DataLines(_, _)
DataLines(lines, column_positions) ==
    IF lines = <<>> THEN <<>>
    ELSE LET sanitized_line == SelectSeq(Head(lines), LAMBDA c : c # 0)
             trimmed        == strip(sanitized_line)
         IN  IF trimmed = <<>> THEN DataLines(Tail(lines), column_positions)
             ELSE IF startswith(trimmed, COLUMNS[EmpRUC])
                  THEN DataLines(Tail(lines), detect_column_positions(sanitized_line))
             ELSE IF startswith(trimmed, <<45, 45, 45>>)
                  THEN DataLines(Tail(lines), column_positions)
             ELSE LET positions == IF column_positions = None
                                   THEN FALLBACK_POSITIONS ELSE column_positions
                  IN  <<[line |-> sanitized_line, positions |-> positions]>>
                          \o DataLines(Tail(lines), positions)

\* parse_rpt raises (UnicodeEncodeError out of fix_text)
parse_rpt_raises(content) ==
    LET data == DataLines(splitlines(content), None)
    IN  \E i \in 1..Len(data) :
            parse_fixed_width_line_raises(data[i].line, data[i].positions)

\* parse_rpt, where it returns: the records in file order
parse_rpt(content) ==
    LET data    == DataLines(splitlines(content), None)
        parsed  == [i \in 1..Len(data) |->
                       parse_fixed_width_line(data[i].line, data[i].positions)]
    IN  SelectSeq(parsed, LAMBDA record : record # None)

---------------------------------------------------------------------------
(* RecordKeyBuilder and date extraction                                    *)

\* sep.join(parts)
join(sep, parts) ==
    Concat([i \in 1..(2 * Len(parts) - 1) |->
               IF i % 2 = 1 THEN parts[(i + 1) \div 2] ELSE sep])

\* build_key
build_key(record) ==
    join(<<124, 124>>, [k \in 1..Len(COLUMNS) |-> strip(record[k])])

\* extract_date
extract_date(rep_fecha) ==
    IF rep_fecha = <<>> \/ rep_fecha = None THEN None
    ELSE LET candidate == Take(strip(rep_fecha), 10)
         IN  IF Len(candidate) # 10 THEN None
             ELSE IF count(candidate, 45) # 2 THEN None
             ELSE IF find(candidate, <<45>>) # 4 THEN None
             ELSE candidate

---------------------------------------------------------------------------
(* IngestionMerger: insert_records                                         *)
(*                                                                         *)
(* A row of the table is a record                                          *)
(*   [id, fields, RepFechaDate, detail_normalized, resolved, sources,      *)
(*    created_at]                                                          *)
(* with fields the six text columns in the order of COLUMNS and sources    *)
(* the list that the column holds as JSON text.  The table is a set of     *)
(* rows: that the column id is the PRIMARY KEY is what Exec enforces.      *)

\* the keys looked up per SELECT ... WHERE id IN (...)
ChunkSize == 500

\* the first loop raises: fix_text raises on a field of a record
prepare_raises(records) ==
    \E i \in 1..Len(records) : \E k \in 1..Len(COLUMNS) :
        fix_text_raises(records[i][k])

\* a variant of the first loop that filters nothing
IsIgnoredNever(detail_normalized) == FALSE

\* any(detail_normalized.startswith(prefix) for prefix in IGNORED_DETAIL_PREFIXES)
IsIgnored(detail_normalized) ==
    \E p \in 1..Len(IGNORED_DETAIL_PREFIXES) :
        startswith(detail_normalized, IGNORED_DETAIL_PREFIXES[p])

\* one pass of the first loop: the record repaired, its key, its normalized detail
Candidate(raw) ==
    LET record == [k \in 1..Len(COLUMNS) |-> fix_text(raw[k])]
    IN  [record            |-> record,
         key               |-> build_key(record),
         detail_normalized |-> normalize_detail(record[RepDetalleRechazo])]

\* the list prepared
Prepared(records) ==
    SelectSeq([i \in 1..Len(records) |-> Candidate(records[i])],
              LAMBDA c : ~IsIgnored(c.detail_normalized) /\ c.key # <<>>)

\* the counter ignored
Ignored(records) ==
    Cardinality({i \in 1..Len(records) :
                    IsIgnored(Candidate(records[i]).detail_normalized)})

\* chunked(sequence, size)
chunked(sequence, size) ==
    [c \in 1..((Len(sequence) + size - 1) \div size) |->
        SubSeq(sequence, (c - 1) * size + 1,
               IF c * size < Len(sequence) THEN c * size ELSE Len(sequence))]

\* the dict existing, id -> sources, that the SELECTs fill from the table
\* as the connection sees it
Existing(view, keys) ==
    LET chunks == chunked(keys, ChunkSize)
        found  == {r \in view : \E c \in 1..Len(chunks) :
                                   \E i \in 1..Len(chunks[c]) : chunks[c][i] = r.id}
    IN  [id \in {r.id : r \in found} |-> (CHOOSE r \in found : r.id = id).sources]

\* the row built for a key that is not in existing; index counts from 0
NewRow(c, source, now, index) ==
    [id                |-> c.key,
     fields            |-> c.record,
     RepFechaDate      |-> extract_date(c.record[RepFecha]),
     detail_normalized |-> c.detail_normalized,
     resolved          |-> FALSE,
     sources           |-> <<source>>,
     created_at        |-> now + index]

\* the statements of one call in the order they are executed: the UPDATEs of
\* the second loop, then the INSERTs of executemany
\* a variant of the second loop that appends the label without looking for
\* it in the row's sources
UpdatesAlways(prepared, existing, source) ==
    LET stmt(c) == [op |-> "update", id |-> c.key,
                    sources |-> Append(existing[c.key], source)]
        todo    == SelectSeq(prepared, LAMBDA c : c.key \in DOMAIN existing)
    IN  [i \in 1..Len(todo) |-> stmt(todo[i])]

Updates(prepared, existing, source) ==
    LET stmt(c) == [op |-> "update", id |-> c.key,
                    sources |-> Append(existing[c.key], source)]
        hit(c)  == /\ c.key \in DOMAIN existing
                   /\ \A i \in 1..Len(existing[c.key]) : existing[c.key][i] # source
        todo    == SelectSeq(prepared, hit)
    IN  [i \in 1..Len(todo) |-> stmt(todo[i])]

Inserts(prepared, existing, source, now) ==
    LET idx  == SelectSeq([i \in 1..Len(prepared) |-> i],
                          LAMBDA i : prepared[i].key \notin DOMAIN existing)
    IN  [n \in 1..Len(idx) |->
            [op |-> "insert", row |-> NewRow(prepared[idx[n]], source, now, idx[n] - 1)]]

\* the counters added and duplicates
Added(prepared, existing) ==
    Cardinality({i \in 1..Len(prepared) : prepared[i].key \notin DOMAIN existing})

Duplicates(prepared, existing) ==
    Cardinality({i \in 1..Len(prepared) : prepared[i].key \in DOMAIN existing})

\* a variant of the table without PRIMARY KEY on id
ConflictsNever(view, stmt) == FALSE

\* sqlite3.IntegrityError: the INSERT of a row whose id the table holds
Conflicts(view, stmt) ==
    stmt.op = "insert" /\ \E r \in view : r.id = stmt.row.id

\* a variant of the UPDATE that stores the new label alone
ExecReplacing(view, stmt) ==
    IF stmt.op = "update"
    THEN {IF r.id = stmt.id
          THEN [r EXCEPT !.sources = <<stmt.sources[Len(stmt.sources)]>>]
          ELSE r : r \in view}
    ELSE view \cup {stmt.row}

\* one statement on the table as the connection sees it
Exec(view, stmt) ==
    IF stmt.op = "update"
    THEN {IF r.id = stmt.id THEN [r EXCEPT !.sources = stmt.sources] ELSE r : r \in view}
    ELSE view \cup {stmt.row}

\* the statements from the n-th on, run in turn; fault = n makes the n-th fail
\* with a storage error.  The result is the table as the connection sees it,
\* whether every statement ran, and whether the fault struck.
RECURSIVE Run(_, _, _, _)
Run(view, stmts, n, fault) ==
    IF n > Len(stmts) THEN [view |-> view, done |-> TRUE, struck |-> FALSE]
    ELSE IF fault = n THEN [view |-> view, done |-> FALSE, struck |-> TRUE]
    ELSE IF Conflicts(view, stmts[n]) THEN [view |-> view, done |-> FALSE, struck |-> FALSE]
    ELSE Run(Exec(view, stmts[n]), stmts, n + 1, fault)

\* a variant of conn.close() that keeps what the connection wrote, committed
\* or not
ClosedKeeping(table, view, committed) == view

\* the table after conn.close(): what the connection wrote is kept when
\* conn.commit() ran, and rolled back otherwise
Closed(table, view, committed) == IF committed THEN view ELSE table

\* the first loop of insert_records on records: whether it raises, and the
\* list prepared and the counter ignored when it does not
Batch(records) ==
    IF prepare_raises(records)
    THEN [empty |-> FALSE, raises |-> TRUE, prepared |-> <<>>, ignored |-> 0]
    ELSE [empty    |-> records = <<>>,
          raises   |-> FALSE,
          prepared |-> Prepared(records),
          ignored  |-> Ignored(records)]

\* the end of a call whose lookup filled existing and whose statements ran as
\* run tells: conn.commit(), the summary, conn.close().  The storage calls of
\* the call are numbered: 1 the lookup, 2.. the statements, last the commit;
\* fault names the one that fails (0: none).  raised: the call ends in an
\* exception; struck: the fault was reached.
Finish(table, batch, existing, stmts, run, fault) ==
    LET ok     == fault # 1 /\ run.done /\ fault # Len(stmts) + 2
        struck == fault = 1 \/ run.struck \/ (run.done /\ fault = Len(stmts) + 2)
        view   == IF fault = 1 THEN table ELSE run.view
    IN  [rows       |-> Closed(table, view, ok),
         raised     |-> ~ok,
         struck     |-> struck,
         added      |-> IF ok THEN Added(batch.prepared, existing) ELSE 0,
         duplicates |-> IF ok THEN Duplicates(batch.prepared, existing) ELSE 0,
         ignored    |-> IF ok THEN batch.ignored ELSE 0]

\* the second loop and executemany, for the dict existing of the lookup
Write(table, batch, source, now, fault, existing, stmts) ==
    Finish(table, batch, existing, stmts, Run(table, stmts, 1, fault - 1), fault)

Lookup(table, batch, source, now, fault, existing) ==
    Write(table, batch, source, now, fault, existing,
          Updates(batch.prepared, existing, source)
              \o Inserts(batch.prepared, existing, source, now))

\* insert_records from its first loop on, for the batch that the loop makes
\* of the records, on the table at time now
Merge(table, batch, source, now, fault) ==
    LET quiet(r, i) == [rows |-> table, raised |-> r, struck |-> FALSE,
                        added |-> 0, duplicates |-> 0, ignored |-> i]
    IN  IF batch.empty THEN quiet(FALSE, 0)
        ELSE IF batch.raises THEN quiet(TRUE, 0)
        ELSE IF batch.prepared = <<>> THEN quiet(FALSE, batch.ignored)
        ELSE Lookup(table, batch, source, now, fault,
                    Existing(table, [i \in 1..Len(batch.prepared) |->
                                        batch.prepared[i].key]))

\* insert_records(records, source)
insert_records(table, records, source, now, fault) ==
    Merge(table, Batch(records), source, now, fault)

---------------------------------------------------------------------------
(* Workflow handlers on the table                                          *)

\* a variant of api_toggle that marks the row resolved whatever it was
api_toggle_marking(table, row_id) ==
    IF \A r \in table : r.id # row_id
    THEN [rows |-> table, status |-> 404, resolved |-> FALSE]
    ELSE [rows     |-> {IF r.id = row_id THEN [r EXCEPT !.resolved = TRUE]
                        ELSE r : r \in table},
          status   |-> 200,
          resolved |-> TRUE]

\* api_toggle(row_id): 404 when the SELECT finds no row
api_toggle(table, row_id) ==
    IF \A r \in table : r.id # row_id
    THEN [rows |-> table, status |-> 404, resolved |-> FALSE]
    ELSE LET row       == CHOOSE r \in table : r.id = row_id
             new_value == ~row.resolved
         IN  [rows     |-> {IF r.id = row_id THEN [r EXCEPT !.resolved = new_value]
                            ELSE r : r \in table},
              status   |-> 200,
              resolved |-> new_value]

\* a variant of api_delete_resolved without the WHERE clause
api_delete_all(table) ==
    [rows |-> {}, deleted |-> Cardinality(table)]

\* api_delete_resolved: DELETE FROM rows WHERE resolved = 1, and cursor.rowcount
api_delete_resolved(table) ==
    [rows    |-> {r \in table : ~r.resolved},
     deleted |-> Cardinality({r \in table : r.resolved})]

---------------------------------------------------------------------------
(* The files the requests of the model upload                              *)

Pad(s, width) == s \o [i \in 1..(width - Len(s)) |-> 32]

\* a header whose labels stand at the offsets 0, 8, 23, 30, 47, 68, and a
\* data line laid out under it
HeaderLine ==
    Pad(COLUMNS[1], 8) \o Pad(COLUMNS[2], 15) \o Pad(COLUMNS[3], 7)
        \o Pad(COLUMNS[4], 17) \o Pad(COLUMNS[5], 21) \o COLUMNS[6]

DataLine(r) ==
    Pad(r[1], 8) \o Pad(r[2], 15) \o Pad(r[3], 7) \o Pad(r[4], 17)
        \o Pad(r[5], 21) \o r[6]

SeparatorLine == [i \in 1..24 |-> 45]

FileOf(lines) == Utf8Encode(join(<<10>>, lines) \o <<10>>)

\* "2023-05-01 extra"
DateLong == <<50, 48, 50, 51, 45, 48, 53, 45, 48, 49, 32, 101, 120, 116, 114, 97>>

\* "2023-5-1 extra"
DateShort == <<50, 48, 50, 51, 45, 53, 45, 49, 32, 101, 120, 116, 114, 97>>

\* the ignorable prefix in upper case, its accents as combining marks, and " (2)"
PrefixVariant ==
    LET d == NFD(IGNORED_DETAIL_PREFIXES_RAW[1])
    IN  [i \in 1..Len(d) |-> IF d[i] \in 97..122 THEN d[i] - 32 ELSE d[i]]
            \o <<32, 40, 50, 41>>

\* RecOne and RecOneNbsp differ in EmpNom: "?" and a twice-encoded no-break
\* space before "?", which fix_text turns into U+00A0 "?", so both have one key
RecOne     == << <<49>>, <<97>>, <<63>>, DateLong, <<82>>, <<120>> >>
RecOneNbsp == << <<49>>, <<97>>, <<194, 160, 63>>, DateLong, <<82>>, <<120>> >>
RecTwo     == << <<50>>, <<98>>, <<110>>, DateShort, <<82>>, <<121>> >>
RecIgnored == << <<51>>, <<99>>, <<110>>, <<>>, <<82>>, PrefixVariant >>
\* a detail with the marker and a combining mark: fix_text raises on it
RecRaises  == << <<53>>, <<101>>, <<110>>, <<>>, <<82>>, <<63, 769>> >>

Content ==
    << FileOf(<<HeaderLine, DataLine(RecOne), SeparatorLine>>),
       FileOf(<<HeaderLine, DataLine(RecOneNbsp), DataLine(RecTwo)>>),
       FileOf(<<HeaderLine, DataLine(RecTwo), DataLine(RecTwo)>>),
       FileOf(<<HeaderLine, DataLine(RecIgnored), DataLine(RecOne)>>),
       FileOf(<<HeaderLine, DataLine(RecOne), DataLine(RecRaises)>>) >>

\* the seed file result.rpt, when it exists
SeedContent == Content[1]

\* the file names a request gives; the empty one stands for a missing name
Filenames == {"", "B"}

\* api_upload: raw_bytes.decode("utf-8"), and on UnicodeDecodeError
\* raw_bytes.decode("latin-1"), which maps every byte to its code point
Decoded(raw_bytes) ==
    IF Utf8Valid(raw_bytes) THEN Utf8Decode(raw_bytes) ELSE raw_bytes

\* the decoding and parse_rpt of api_upload on raw_bytes: whether parse_rpt
\* raises, the records when it does not, and the batch that the first loop
\* of insert_records makes of them
ParseOf(raw_bytes) ==
    LET text == Decoded(raw_bytes)
    IN  IF parse_rpt_raises(text)
        THEN [raises |-> TRUE, records |-> <<>>, batch |-> Batch(<<>>)]
        ELSE [raises |-> FALSE, records |-> parse_rpt(text),
              batch |-> Batch(parse_rpt(text))]

\* the same for each file of Content
Parsed ==
    << ParseOf(Content[1]), ParseOf(Content[2]), ParseOf(Content[3]),
       ParseOf(Content[4]), ParseOf(Content[5]) >>

\* the keys of the records in the files, those of ignored records included
RowIds ==
    UNION {{Candidate(Parsed[f].records[i]).key : i \in 1..Len(Parsed[f].records)} :
              f \in 1..Len(Content)}

---------------------------------------------------------------------------
(* Ingest entry point and bootstrap                                        *)

\* the loop of api_upload from the i-th file on; a file is [filename, content],
\* content an index of Content.  fault = [file, call] makes that storage call
\* of that file's merge fail (file = 0: none).  An exception ends the request
\* with status 500 and leaves what the files before committed.
RECURSIVE UploadLoop(_, _, _, _, _, _)

\* one turn of the loop, for the parse of the file and its merge
UploadFile(table, files, i, now, fault, summaries, filename, parse, merge) ==
    IF parse.raises
    THEN [rows |-> table, status |-> 500, files |-> summaries, struck |-> FALSE]
    ELSE IF merge.raised
    THEN [rows |-> merge.rows, status |-> 500, files |-> summaries,
          struck |-> merge.struck]
    ELSE UploadLoop(merge.rows, files, i + 1, now, fault,
                    Append(summaries,
                           [name       |-> filename,
                            total      |-> Len(parse.records),
                            added      |-> merge.added,
                            duplicates |-> merge.duplicates,
                            ignored    |-> merge.ignored]))

UploadParsed(table, files, i, now, fault, summaries, filename, parse) ==
    UploadFile(table, files, i, now, fault, summaries, filename, parse,
               Merge(table, parse.batch, filename, now,
                     IF fault.file = i THEN fault.call ELSE 0))

UploadLoop(table, files, i, now, fault, summaries) ==
    IF i > Len(files)
    THEN [rows |-> table, status |-> 200, files |-> summaries, struck |-> FALSE]
    ELSE UploadParsed(table, files, i, now, fault, summaries,
                      IF files[i].filename = "" THEN "archivo.rpt"
                      ELSE files[i].filename,
                      Parsed[files[i].content])

\* a variant of api_upload in which the request is one transaction: an
\* exception rolls back what the files before committed
api_upload_rolling_back(table, files, now, fault) ==
    IF files = <<>>
    THEN [rows |-> table, status |-> 400, files |-> <<>>, struck |-> FALSE]
    ELSE [UploadLoop(table, files, 1, now, fault, <<>>) EXCEPT
              !.rows = IF UploadLoop(table, files, 1, now, fault, <<>>).status = 500
                       THEN table ELSE @]

\* api_upload
api_upload(table, files, now, fault) ==
    IF files = <<>>
    THEN [rows |-> table, status |-> 400, files |-> <<>>, struck |-> FALSE]
    ELSE UploadLoop(table, files, 1, now, fault, <<>>)

\* parse_rpt on the seed file, read with errors="ignore", and the batch of
\* insert_records
SeedParsed ==
    LET content == Utf8DecodeIgnore(SeedContent)
    IN  IF parse_rpt_raises(content)
        THEN [raises |-> TRUE, records |-> <<>>, batch |-> Batch(<<>>)]
        ELSE [raises |-> FALSE, records |-> parse_rpt(content),
              batch |-> Batch(parse_rpt(content))]

\* maybe_load_initial_data; seed says whether result.rpt is "absent",
\* "unreadable" (open or read raises OSError) or "present"
SeedMerged(table, merge) ==
    [rows |-> merge.rows, raised |-> merge.raised, loaded |-> ~merge.raised]

SeedLoaded(table, seed, now, parse) ==
    LET skip == [rows |-> table, raised |-> FALSE, loaded |-> FALSE]
    IN  IF seed = "absent" THEN skip
        ELSE IF table # {} THEN skip
        ELSE IF seed = "unreadable" THEN skip
        ELSE IF parse.raises
             THEN [rows |-> table, raised |-> TRUE, loaded |-> FALSE]
        ELSE IF parse.records = <<>> THEN skip
        ELSE SeedMerged(table, Merge(table, parse.batch, "result.rpt", now, 0))

maybe_load_initial_data(table, seed, now) ==
    SeedLoaded(table, seed, now, SeedParsed)

---------------------------------------------------------------------------
(* The server, one request at a time                                       *)

\* bounds of the model
MaxRequests == 3
MaxUploads == 2
MaxClock == 1
MaxCall == 4

Idle == [w \in {1, 2} |-> [pc |-> "idle"]]

Init ==
    /\ rows = {}
    /\ clock = 0
    /\ resp = [op |-> "none"]
    /\ served = [requests |-> 0, uploads |-> 0]
    /\ conn = Idle
    /\ arg = <<>>
    /\ ret = <<>>

\* the module is loaded: ensure_database(), which keeps an existing table,
\* and maybe_load_initial_data()
Startup ==
    /\ \A w \in DOMAIN conn : conn[w].pc = "idle"
    /\ \E seed \in {"absent", "unreadable", "present"} :
           \E r \in {maybe_load_initial_data(rows, seed, clock)} :
               /\ rows' = r.rows
               /\ resp' = [op |-> "startup", raised |-> r.raised,
                           loaded |-> r.loaded]
    /\ UNCHANGED <<clock, served, conn, arg, ret>>

\* the requests of the model: one file or several of different names, each
\* a name and a content
Requests ==
    UNION {{files \in [1..n -> [filename : Filenames, content : 1..Len(Content)]] :
               \A i, j \in 1..n : i # j => files[i].filename # files[j].filename} :
              n \in 1..Cardinality(Filenames)}

\* the storage errors of the model: none, or one in a storage call of the
\* merge of a request of one file
Faults(files) ==
    {[file |-> 0, call |-> 0]}
        \cup {[file |-> 1, call |-> c] : c \in IF Len(files) = 1 THEN 1..MaxCall ELSE {}}

\* a request is served
Serve(uploads) ==
    /\ resp.op # "none"
    /\ served.requests < MaxRequests
    /\ served.uploads + uploads <= MaxUploads
    /\ served' = [requests |-> served.requests + 1,
                  uploads  |-> served.uploads + uploads]

\* POST /api/upload
Upload ==
    /\ Serve(1)
    /\ \E files \in Requests \cup {<<>>} : \E fault \in Faults(files) :
           \E r \in {api_upload(rows, files, clock, fault)} :
               /\ fault.file = 0 \/ r.struck
               /\ rows' = r.rows
               /\ resp' = [op |-> "upload", status |-> r.status, files |-> r.files]
    /\ UNCHANGED <<clock, conn, arg, ret>>

\* POST /api/rows/<row_id>/toggle
Toggle ==
    /\ Serve(0)
    /\ \E row_id \in RowIds :
           \E r \in {api_toggle(rows, row_id)} :
               /\ rows' = r.rows
               /\ resp' = [op |-> "toggle", id |-> row_id, status |-> r.status,
                           resolved |-> r.resolved]
    /\ UNCHANGED <<clock, conn, arg, ret>>

\* DELETE /api/rows/resolved
DeleteResolved ==
    /\ Serve(0)
    /\ \E r \in {api_delete_resolved(rows)} :
           /\ rows' = r.rows
           /\ resp' = [op |-> "delete", status |-> 200, deleted |-> r.deleted]
    /\ UNCHANGED <<clock, conn, arg, ret>>

\* a millisecond passes
Tick ==
    /\ clock < MaxClock
    /\ clock' = clock + 1
    /\ UNCHANGED <<rows, resp, served, conn, arg, ret>>

Next == Startup \/ Upload \/ Toggle \/ DeleteResolved \/ Tick

Spec == Init /\ [][Next]_vars

---------------------------------------------------------------------------
(* Properties of the merge                                                 *)

\* the labels a merge call is given: the seed's, the default of an upload
\* without file name, and a file name
Labels == {"result.rpt", "archivo.rpt", "B"}

\* the files whose text parse_rpt turns into records
Parsable == {f \in 1..Len(Parsed) : ~Parsed[f].raises}

Ids(table) == {r.id : r \in table}

RowOf(table, id) == CHOOSE r \in table : r.id = id

Has(sources, label) == \E i \in 1..Len(sources) : sources[i] = label

\* the keys of the non-ignored candidates of a batch
BatchKeys(batch) == {batch.prepared[i].key : i \in 1..Len(batch.prepared)}

\* C1 -- Idempotent re-ingest: on every store and for every batch, when
\* insert_records is called twice in succession with the same batch and the
\* same source label, the second call returns added = 0 and duplicates = the
\* number of non-ignored candidates, and leaves the store as the first call
\* left it.
C1_IdempotentReingest ==
    \A f \in Parsable, source \in Labels :
        \A first \in {Merge(rows, Parsed[f].batch, source, clock, 0)} :
            \A second \in {Merge(first.rows, Parsed[f].batch, source, clock, 0)} :
                /\ ~second.raised
                /\ second.added = 0
                /\ second.duplicates = Len(Parsed[f].batch.prepared)
                /\ second.rows = first.rows

\* C2 -- Source merge on duplicate: a merge call with label B that returns,
\* for every key of its batch that is already stored, inserts no new row for
\* it, counts each of its candidates as duplicate, and leaves the row as it
\* was but for sources, which gets B appended at the end when B is not in it
\* and is unchanged when it is; merging one record with label A and then
\* with label B into a store without it gives one row with sources = [A, B],
\* added = 1 then duplicates = 1; and no stored row's sources holds a label
\* twice.
C2_SourceMergeOnDuplicate ==
    /\ \A r \in rows : \A i, j \in 1..Len(r.sources) :
           i # j => r.sources[i] # r.sources[j]
    /\ \A f \in Parsable, source \in Labels :
           \A call \in {Merge(rows, Parsed[f].batch, source, clock, 0)} :
               ~call.raised =>
                   /\ call.duplicates =
                          Cardinality({i \in 1..Len(Parsed[f].batch.prepared) :
                              Parsed[f].batch.prepared[i].key \in Ids(rows)})
                   /\ \A id \in BatchKeys(Parsed[f].batch) \cap Ids(rows) :
                          /\ Cardinality({r \in call.rows : r.id = id}) = 1
                          /\ RowOf(call.rows, id) =
                                 [RowOf(rows, id) EXCEPT !.sources =
                                     IF Has(@, source) THEN @ ELSE Append(@, source)]
    /\ Parsed[1].batch.prepared[1].key \notin Ids(rows) =>
           \A a \in {Merge(rows, Parsed[1].batch, "archivo.rpt", clock, 0)} :
               \A b \in {Merge(a.rows, Parsed[1].batch, "B", clock, 0)} :
                   /\ a.added = 1 /\ b.added = 0 /\ b.duplicates = 1
                   /\ Cardinality(b.rows) = Cardinality(rows) + 1
                   /\ RowOf(b.rows, Parsed[1].batch.prepared[1].key).sources
                          = <<"archivo.rpt", "B">>

\* a request has merged a file some of whose records were stored, and a row
\* carries the labels of two calls
C2_Witness ==
    /\ resp.op = "upload" /\ resp.status = 200
    /\ \E i \in 1..Len(resp.files) : resp.files[i].duplicates > 0
    /\ \E r \in rows : Len(r.sources) = 2

\* the records of file f whose rejection detail, repaired and normalized,
\* starts with the normalized ignorable prefix
IgnorableIn(f) ==
    {i \in 1..Len(Parsed[f].records) :
        startswith(normalize_detail(fix_text(Parsed[f].records[i][RepDetalleRechazo])),
                   normalize_detail(IGNORED_DETAIL_PREFIXES_RAW[1]))}

Ignorable == <<IgnorableIn(1), IgnorableIn(2), IgnorableIn(3), IgnorableIn(4), IgnorableIn(5)>>

\* the key of the i-th record of file f
KeyIn(f, i) ==
    build_key([k \in 1..Len(COLUMNS) |-> fix_text(Parsed[f].records[i][k])])

\* the keys of the ignorable records of the files, and per file the keys of
\* the other records
IgnorableKeys ==
    UNION {{KeyIn(f, i) : i \in Ignorable[f]} : f \in Parsable}

OtherKeysIn(f) ==
    IF f \in Parsable
    THEN {KeyIn(f, i) : i \in 1..Len(Parsed[f].records) \ Ignorable[f]}
    ELSE {}

OtherKeys == <<OtherKeysIn(1), OtherKeysIn(2), OtherKeysIn(3), OtherKeysIn(4), OtherKeysIn(5)>>

\* C6 -- Ignorable-prefix filtering: no stored row has a detail_normalized
\* that starts with a normalized ignorable prefix; and in a merge call that
\* returns, a candidate whose rejection detail normalizes to such a text (in
\* the file: upper case, accents as combining marks) is counted in ignored
\* and in no other counter, its key is not stored, and the rows whose keys
\* the other candidates do not have are left as they were.
C6_IgnorablePrefixFiltering ==
    /\ \A r \in rows : \A p \in 1..Len(IGNORED_DETAIL_PREFIXES) :
           ~startswith(r.detail_normalized, IGNORED_DETAIL_PREFIXES[p])
    /\ \A f \in Parsable, source \in Labels :
           \A call \in {Merge(rows, Parsed[f].batch, source, clock, 0)} :
               ~call.raised =>
                   /\ call.ignored = Cardinality(Ignorable[f])
                   /\ call.added + call.duplicates
                          = Len(Parsed[f].records) - Cardinality(Ignorable[f])
                   /\ Ids(call.rows) \cap IgnorableKeys = {}
                   /\ \A r \in rows : r.id \notin OtherKeys[f] => r \in call.rows

\* an upload has merged a file of which a record was ignored and another stored
C6_Witness ==
    /\ resp.op = "upload" /\ resp.status = 200
    /\ \E i \in 1..Len(resp.files) :
           resp.files[i].ignored > 0 /\ resp.files[i].added > 0
    /\ rows # {}

\* C9 -- Toggle: for a key in the store, the toggle flips the resolved flag
\* of that row, returns the new value and changes no other row and no other
\* field; for a key not in the store it answers not-found and leaves the
\* store as it is; two toggles of a key in succession restore the flag.
C9_Toggle ==
    \A row_id \in RowIds :
        \A t \in {api_toggle(rows, row_id)} :
            IF row_id \in Ids(rows)
            THEN /\ t.status = 200
                 /\ t.resolved = ~RowOf(rows, row_id).resolved
                 /\ t.rows = (rows \ {RowOf(rows, row_id)})
                                 \cup {[RowOf(rows, row_id) EXCEPT !.resolved = t.resolved]}
                 /\ api_toggle(t.rows, row_id).rows = rows
                 /\ api_toggle(t.rows, row_id).resolved = RowOf(rows, row_id).resolved
            ELSE t.status = 404 /\ t.rows = rows

\* the second toggle of a row has put its flag back, among other rows
C9_Witness ==
    /\ resp.op = "toggle" /\ resp.status = 200 /\ ~resp.resolved
    /\ \E r \in rows : r.id = resp.id /\ ~r.resolved
    /\ Cardinality(rows) >= 2

\* C10 -- Bulk-clear: the operation deletes the rows whose resolved flag is
\* true and no other, returns their number, leaves every unresolved row as
\* it was, and leaves no resolved row (resolved_count = 0).
C10_BulkClear ==
    \A d \in {api_delete_resolved(rows)} :
        /\ d.rows = {r \in rows : ~r.resolved}
        /\ d.deleted = Cardinality(rows) - Cardinality(d.rows)
        /\ d.deleted = Cardinality({r \in rows : r.resolved})
        /\ Cardinality({r \in d.rows : r.resolved}) = 0

\* a bulk-clear has deleted a row and left another
C10_Witness ==
    /\ resp.op = "delete" /\ resp.deleted >= 1
    /\ rows # {}

\* old is a prefix of new
IsPrefix(old, new) ==
    Len(old) <= Len(new) /\ SubSeq(new, 1, Len(old)) = old

\* the labels of the merge calls that the request served last has committed
Committed(response) ==
    IF response.op = "startup" THEN {"result.rpt"}
    ELSE IF response.op = "upload"
         THEN {response.files[i].name : i \in 1..Len(response.files)}
    ELSE {}

\* C11 -- Record lifecycle: in every step of a sequence of uploads, toggles,
\* bulk-clears and startups, a row that stays keeps its six field values,
\* detail_normalized, rep_date and created_at, its sources of before is a
\* prefix of its sources of after, and its resolved flag changes only in a
\* toggle of its key; a row that goes is resolved and goes in a bulk-clear;
\* and a row that comes is unresolved and its sources are the labels of
\* merge calls of the request, a single call's label being its only source.
C11_RecordLifecycle ==
    [][/\ \A r \in rows :
              IF r.id \in Ids(rows')
              THEN \E q \in {RowOf(rows', r.id)} :
                       /\ q.fields = r.fields
                       /\ q.detail_normalized = r.detail_normalized
                       /\ q.RepFechaDate = r.RepFechaDate
                       /\ q.created_at = r.created_at
                       /\ IsPrefix(r.sources, q.sources)
                       /\ \A i \in (Len(r.sources) + 1)..Len(q.sources) :
                              q.sources[i] \in Committed(resp')
                       /\ q.resolved # r.resolved =>
                              resp'.op = "toggle" /\ resp'.id = r.id
                       /\ q # r => resp'.op \in {"startup", "upload", "toggle"}
              ELSE r.resolved /\ resp'.op = "delete"
       /\ \A q \in rows' :
              q.id \notin Ids(rows) =>
                  /\ ~q.resolved
                  /\ q.sources # <<>>
                  /\ \A i \in 1..Len(q.sources) : q.sources[i] \in Committed(resp')
                  /\ Cardinality(Committed(resp')) = 1 => Len(q.sources) = 1
                  /\ Cardinality({p \in rows' : p.id = q.id}) = 1]_vars

\* a bulk-clear has deleted a row that was toggled, and has left a row that
\* a second merge call has appended its label to
C11_Witness ==
    /\ resp.op = "delete" /\ resp.deleted >= 1
    /\ \E r \in rows : Len(r.sources) >= 2 /\ ~r.resolved

---------------------------------------------------------------------------
(* The server with requests in flight together.  Flask serves each request *)
(* in a thread of its own, and each handler opens its own connection.  A   *)
(* connection reads the committed table; its first UPDATE, INSERT or       *)
(* DELETE opens a transaction and takes the write lock of the database     *)
(* file, which it keeps until commit or close; a connection that finds the *)
(* lock taken waits for it, and raises sqlite3.OperationalError when the   *)
(* wait outlasts the timeout of sqlite3.connect.                           *)

Workers == {1, 2}

\* the connections that hold the write lock
Holders == {w \in Workers : conn[w].pc = "write" /\ conn[w].n > 1}

\* rows as the connection of w sees it
View(w) == IF w \in Holders THEN conn[w].view ELSE rows

\* the end of a request in flight
Ended(w, pc, error) ==
    [conn[w] EXCEPT !.pc = pc, !.error = error]

\* the end of a request by an exception: conn.close() without commit
Raise(w, error) ==
    /\ conn' = [conn EXCEPT ![w] = Ended(w, "raised", error)]
    /\ rows' = Closed(rows, View(w), FALSE)

\* the uploads that have passed their lookup and not ended
InFlight == {w \in Workers : conn[w].pc = "write" /\ conn[w].op = "upload"}

\* an upload in flight; met: the upload of the other thread has been in
\* flight with it, and second: it arrived while that one was in flight
Uploading(pc, error, f, source, existing, stmts) ==
    [op |-> "upload", pc |-> pc, met |-> pc = "write" /\ InFlight # {},
     second |-> pc = "write" /\ InFlight # {}, error |-> error, n |-> 1,
     file |-> f, source |-> source, existing |-> existing, stmts |-> stmts,
     view |-> {}]

\* POST /api/upload with one file arrives: parse_rpt, the first loop of
\* insert_records and the lookup, which a storage error may end
CallUpload(w) ==
    /\ conn[w].pc = "idle"
    /\ Serve(1)
    /\ \E f \in 1..Len(Content), filename \in Filenames, fault \in BOOLEAN :
           \E source \in {IF filename = "" THEN "archivo.rpt" ELSE filename},
              batch \in {Parsed[f].batch} :
               \E existing \in {Existing(rows, [i \in 1..Len(batch.prepared) |->
                                                   batch.prepared[i].key])} :
                   /\ fault => batch.prepared # <<>>
                   /\ conn' = [v \in Workers |->
                          IF v # w
                          THEN IF v \in InFlight /\ batch.prepared # <<>> /\ ~fault
                               THEN [conn[v] EXCEPT !.met = TRUE]
                               ELSE conn[v]
                          ELSE
                          IF Parsed[f].raises \/ batch.raises
                          THEN Uploading("raised", "fix_text", f, source, <<>>, <<>>)
                          ELSE IF batch.prepared = <<>>
                          THEN Uploading("done", "", f, source, <<>>, <<>>)
                          ELSE IF fault
                          THEN Uploading("raised", "storage", f, source, <<>>, <<>>)
                          ELSE Uploading("write", "", f, source, existing,
                                   Updates(batch.prepared, existing, source)
                                       \o Inserts(batch.prepared, existing, source, clock))]
    /\ UNCHANGED <<rows, clock, resp, arg, ret>>

\* the next UPDATE of the second loop or INSERT of executemany
Execute(w) ==
    /\ conn[w].pc = "write" /\ conn[w].op = "upload"
    /\ conn[w].n <= Len(conn[w].stmts)
    /\ Holders \subseteq {w}
    /\ IF Conflicts(View(w), conn[w].stmts[conn[w].n])
       THEN Raise(w, "IntegrityError")
       ELSE /\ conn' = [conn EXCEPT ![w].view = Exec(View(w), conn[w].stmts[conn[w].n]),
                                    ![w].n = @ + 1]
            /\ rows' = rows
    /\ UNCHANGED <<clock, resp, served, arg, ret>>

\* conn.commit(), the summary and conn.close()
Commit(w) ==
    /\ conn[w].pc = "write" /\ conn[w].op = "upload"
    /\ conn[w].n > Len(conn[w].stmts)
    /\ rows' = Closed(rows, View(w), TRUE)
    /\ conn' = [conn EXCEPT ![w] = [Ended(w, "done", "") EXCEPT !.view = {}]]
    /\ UNCHANGED <<clock, resp, served, arg, ret>>

\* the write lock is another connection's for longer than the timeout
Busy(w) ==
    /\ conn[w].pc = "write"
    /\ IF conn[w].op = "toggle" THEN TRUE ELSE conn[w].n <= Len(conn[w].stmts)
    /\ ~(Holders \subseteq {w})
    /\ Raise(w, "OperationalError")
    /\ UNCHANGED <<clock, resp, served, arg, ret>>

\* a storage error in the next statement or in the commit
Fail(w) ==
    /\ conn[w].pc = "write" /\ conn[w].op = "upload"
    /\ Raise(w, "storage")
    /\ UNCHANGED <<clock, resp, served, arg, ret>>

\* POST /api/rows/<row_id>/toggle arrives: the SELECT
CallToggle(w) ==
    /\ conn[w].pc = "idle"
    /\ Serve(0)
    /\ \E row_id \in RowIds :
           conn' = [conn EXCEPT ![w] =
               IF row_id \in {r.id : r \in rows}
               THEN [op |-> "toggle", pc |-> "write", n |-> 1, id |-> row_id,
                     error |-> "",
                     status |-> 200,
                     new_value |-> ~(CHOOSE r \in rows : r.id = row_id).resolved]
               ELSE [op |-> "toggle", pc |-> "done", n |-> 1, id |-> row_id,
                     error |-> "",
                     status |-> 404, new_value |-> FALSE]]
    /\ UNCHANGED <<rows, clock, resp, arg, ret>>

\* the UPDATE and the commit of the toggle
ToggleUpdate(w) ==
    /\ conn[w].pc = "write" /\ conn[w].op = "toggle"
    /\ Holders = {}
    /\ rows' = {IF r.id = conn[w].id THEN [r EXCEPT !.resolved = conn[w].new_value]
                ELSE r : r \in rows}
    /\ conn' = [conn EXCEPT ![w].pc = "done"]
    /\ UNCHANGED <<clock, resp, served, arg, ret>>

\* DELETE /api/rows/resolved: the DELETE and the commit
Delete(w) ==
    /\ conn[w].pc = "idle"
    /\ Serve(0)
    /\ Holders = {}
    /\ \E r \in {api_delete_resolved(rows)} :
           /\ rows' = r.rows
           /\ conn' = [conn EXCEPT ![w] =
                          [op |-> "delete", pc |-> "done", n |-> 1,
                           deleted |-> r.deleted]]
    /\ UNCHANGED <<clock, resp, arg, ret>>

\* the response is sent; met and second of an upload are about the request
\* of the other thread that is there
Return(w) ==
    /\ conn[w].pc \in {"done", "raised"}
    /\ conn' = [v \in Workers |->
                   IF v = w THEN [pc |-> "idle"]
                   ELSE IF conn[v].pc # "idle" /\ conn[v].op = "upload"
                        THEN [conn[v] EXCEPT !.met = FALSE, !.second = FALSE]
                        ELSE conn[v]]
    /\ UNCHANGED <<rows, clock, resp, served, arg, ret>>

NextConc ==
    \/ Startup
    \/ \E w \in Workers :
           \/ CallUpload(w)
           \/ Execute(w)
           \/ Commit(w)
           \/ Busy(w)
           \/ Fail(w)
           \/ CallToggle(w)
           \/ ToggleUpdate(w)
           \/ Delete(w)
           \/ Return(w)

SpecConc == Init /\ [][NextConc]_vars

---------------------------------------------------------------------------
(* Properties of requests in flight together                               *)

\* C3 -- Merge atomicity: a step of an insert_records call either leaves the
\* store as it is or, when the call commits, applies every one of its
\* source updates and inserts; so a call that fails at any step (storage
\* error in the lookup, in a sources update, in the bulk insert or in the
\* commit) leaves the store as it was, and no other request ever reads a
\* store with only some of the call's writes.
C3_MergeAtomicity ==
    [][\A w \in Workers :
           (conn[w].pc \in {"idle", "write"} /\ conn'[w] # conn[w]
                /\ conn'[w].pc # "idle" /\ conn'[w].op = "upload") =>
               IF conn[w].pc = "write" /\ conn'[w].pc = "done"
               THEN \E run \in {Run(rows, conn[w].stmts, 1, 0)} :
                        run.done /\ rows' = run.view
               ELSE rows' = rows]_vars

\* a call has failed by a storage error after it had written
C3_Witness ==
    \E w \in Workers :
        /\ conn[w].pc = "raised" /\ conn[w].op = "upload"
        /\ conn[w].error = "storage" /\ conn[w].n > 1

\* two upload requests were in flight together, and have ended
Overlap(w, v) ==
    /\ w # v
    /\ conn[w].pc \in {"done", "raised"} /\ conn[w].op = "upload"
    /\ conn[v].pc \in {"done", "raised"} /\ conn[v].op = "upload"
    /\ conn[w].met /\ conn[v].met

\* no key twice in the batch
NoRepeat(batch) ==
    \A i, j \in 1..Len(batch.prepared) :
        i # j => batch.prepared[i].key # batch.prepared[j].key

\* C4 -- Check-then-insert under concurrency: two insert_records calls in
\* flight together whose batches share a key that was not stored when the
\* first of them arrived both complete successfully, and exactly one of them
\* counts the key as added and the other as duplicate.  (Calls that a
\* storage error, a lock timeout or the text repair ended, and batches that
\* hold a key twice, are left aside.)
C4_CheckThenInsert ==
    \A w, v \in Workers :
        (/\ Overlap(w, v)
         /\ conn[v].second
         /\ conn[w].error \notin {"storage", "OperationalError", "fix_text"}
         /\ conn[v].error \notin {"storage", "OperationalError", "fix_text"}
         /\ NoRepeat(Parsed[conn[w].file].batch)
         /\ NoRepeat(Parsed[conn[v].file].batch)) =>
            \A k \in (BatchKeys(Parsed[conn[w].file].batch)
                          \cap BatchKeys(Parsed[conn[v].file].batch))
                         \ DOMAIN conn[w].existing :
                /\ conn[w].pc = "done" /\ conn[v].pc = "done"
                /\ k \in DOMAIN conn[v].existing


\* C5 -- Key uniqueness: in every store that uploads, toggles, bulk-clears
\* and startups reach, in sequence or in flight together, no two rows have
\* the same id, and the id of each row is its six stored field values, each
\* trimmed, joined by '||'.
C5_KeyUniqueness ==
    /\ \A r, q \in rows : r.id = q.id => r = q
    /\ \A r \in rows :
           r.id = join(<<124, 124>>, [i \in 1..Len(COLUMNS) |-> strip(r.fields[i])])

\* two uploads in flight together have ended, the store has several rows,
\* and a stored field value differs from its trimmed text
C5_Witness ==
    /\ \E w, v \in Workers : Overlap(w, v)
    /\ Cardinality(rows) >= 2
    /\ \E r \in rows : \E i \in 1..Len(COLUMNS) : strip(r.fields[i]) # r.fields[i]

\* C17 -- Source provenance completeness: when two merge calls that were in
\* flight together have both committed, every key of a non-ignored
\* candidate of either call is stored, and the row's sources holds the
\* label of that call: no committed call's label is lost.
C17_SourceProvenance ==
    \A w, v \in Workers :
        (Overlap(w, v) /\ conn[w].pc = "done" /\ conn[v].pc = "done") =>
            \A k \in BatchKeys(Parsed[conn[w].file].batch) :
                /\ k \in Ids(rows)
                /\ Has(RowOf(rows, k).sources, conn[w].source)

\* C20 -- Concurrent workflow requests on one row: in every interleaving of
\* toggle requests, the write of each request flips the flag that the row
\* has when it is written, so that two requests in flight together leave
\* the flag as it was and answer opposite values; no flip is lost between
\* the read and the write of the handler.
C20_ConcurrentToggles ==
    [][\A w \in Workers :
           (/\ conn[w].pc = "write" /\ conn[w].op = "toggle"
            /\ conn'[w].pc = "done"
            /\ conn[w].id \in Ids(rows)) =>
               /\ RowOf(rows', conn[w].id).resolved = ~RowOf(rows, conn[w].id).resolved
               /\ \A v \in Workers \ {w} :
                      (/\ conn[v].pc = "done" /\ conn[v].op = "toggle"
                       /\ conn[v].status = 200 /\ conn[v].id = conn[w].id
                       /\ RowOf(rows, conn[w].id).resolved = conn[v].new_value) =>
                          conn[w].new_value # conn[v].new_value]_vars

---------------------------------------------------------------------------
(* extract_date on the report-date-strings a record can hold               *)

\* the texts the strings are made of: a year, a separator, a month, a
\* separator, a day and what follows
Years  == {<<50, 48, 50, 51>>, <<50, 48, 50>>, <<50, 48, 50, 51, 49>>, <<>>}
Seps   == {<<45>>, <<47>>}
Months == {<<48, 53>>, <<53>>, <<49, 50, 51>>}
Days   == {<<48, 49>>, <<49>>}
Tails  == {<<>>, <<32, 101, 120, 116, 114, 97>>, <<45, 120>>, <<84, 49, 48, 58, 48, 48>>}

\* the field RepFecha as parse_rpt leaves it: trimmed
DateStrings ==
    {y \o s \o m \o t \o d \o e :
        y \in Years, s \in Seps, m \in Months, t \in Seps, d \in Days, e \in Tails}

InitDate ==
    /\ rows = {}
    /\ clock = 0
    /\ resp = [op |-> "none"]
    /\ served = [requests |-> 0, uploads |-> 0]
    /\ conn = Idle
    /\ arg \in DateStrings
    /\ ret = [done |-> FALSE]

ExtractDate ==
    /\ ~ret.done
    /\ ret' = [done |-> TRUE, value |-> extract_date(arg)]
    /\ UNCHANGED <<rows, clock, resp, served, conn, arg>>

NextDate == ExtractDate

SpecDate == InitDate /\ [][NextDate]_vars

\* the shape YYYY-MM-DD: ten characters with '-' fifth and eighth and nowhere else
DateShape(s) ==
    /\ Len(s) = 10
    /\ \A i \in 1..10 : (s[i] = 45) <=> (i \in {5, 8})

\* C7 -- Date extraction: extract_date returns the first 10 characters of
\* the report-date-string if and only if those 10 characters have the shape
\* YYYY-MM-DD (4-character year, '-', 2-character month, '-', 2-character
\* day), and absent otherwise.
C7_DateExtraction ==
    ret.done =>
        IF DateShape(Take(arg, 10))
        THEN ret.value = Take(arg, 10)
        ELSE ret.value = None

---------------------------------------------------------------------------
(* api_rows: the page of the rows that match the filters                   *)

\* the default and the largest page_size
DefaultPageSize == 20
MaxPageSize == 200

Max(a, b) == IF a > b THEN a ELSE b
Min(a, b) == IF a < b THEN a ELSE b

\* int(param) if param is not None else default, and default on ValueError;
\* a parameter is absent, not a number, or an integer
IntParam(param, default) ==
    IF param.kind = "int" THEN param.value ELSE default

\* a variant of api_rows that keeps the requested page beyond the last
api_rows_beyond(total, page_param, page_size_param) ==
    LET page      == Max(1, IntParam(page_param, 1))
        page_size == Max(1, Min(IntParam(page_size_param, DefaultPageSize), MaxPageSize))
        total_pages == IF total # 0
                       THEN Max(1, (total + page_size - 1) \div page_size) ELSE 1
        offset    == (page - 1) * page_size
    IN  [page |-> page, page_size |-> page_size, total |-> total,
         total_pages |-> total_pages, offset |-> offset,
         rows |-> Max(0, Min(page_size, total - offset))]

\* api_rows for a query that total rows match: the pagination of the
\* response, the OFFSET of the rows query, and the number of rows that
\* LIMIT page_size OFFSET offset returns
api_rows(total, page_param, page_size_param) ==
    LET page0     == Max(1, IntParam(page_param, 1))
        page_size == Max(1, Min(IntParam(page_size_param, DefaultPageSize), MaxPageSize))
        total_pages == IF total # 0
                       THEN Max(1, (total + page_size - 1) \div page_size) ELSE 1
        page      == IF page0 > total_pages THEN total_pages ELSE page0
        offset    == (page - 1) * page_size
    IN  [page |-> page, page_size |-> page_size, total |-> total,
         total_pages |-> total_pages, offset |-> offset,
         rows |-> Max(0, Min(page_size, total - offset))]

\* bounds of the queries
MaxTotal == 45
MaxPage == 4

Totals == 0..MaxTotal \cup {199, 200, 201, 400, 401}

Params(values) ==
    {[kind |-> "absent", value |-> 0], [kind |-> "invalid", value |-> 0]}
        \cup {[kind |-> "int", value |-> v] : v \in values}

InitRows ==
    /\ rows = {}
    /\ clock = 0
    /\ resp = [op |-> "none"]
    /\ served = [requests |-> 0, uploads |-> 0]
    /\ conn = Idle
    /\ arg \in [total : Totals,
                page : Params(-1..MaxPage \cup {999}),
                page_size : Params({-1, 0, 1, 2, 20, 199, 200, 201, 1000})]
    /\ ret = [done |-> FALSE]

Query ==
    /\ ~ret.done
    /\ ret' = [done |-> TRUE, body |-> api_rows(arg.total, arg.page, arg.page_size)]
    /\ UNCHANGED <<rows, clock, resp, served, conn, arg>>

NextRows == Query

SpecRows == InitRows /\ [][NextRows]_vars

\* C8 -- Pagination clamp: for every requested page (1 when absent or not a
\* number), page_size (20 when absent or not a number) and number total of
\* matching rows, the query returns page_size clamped to [1, 200],
\* total_pages = ceil(total / page_size) when total > 0 and 1 when total = 0,
\* and page = min(max(1, requested), total_pages); when total > 0 the offset
\* (page - 1) * page_size is below total and the page holds a row.
C8_PaginationClamp ==
    ret.done =>
        LET requested == IF arg.page.kind = "int" THEN arg.page.value ELSE 1
            wanted    == IF arg.page_size.kind = "int" THEN arg.page_size.value ELSE 20
            size      == IF wanted < 1 THEN 1 ELSE IF wanted > 200 THEN 200 ELSE wanted
            pages     == IF arg.total = 0 THEN 1
                         ELSE CHOOSE n \in 1..arg.total :
                                  n * size >= arg.total /\ (n - 1) * size < arg.total
        IN  /\ ret.body.page_size = size
            /\ ret.body.total_pages = pages
            /\ ret.body.page = Min(Max(1, requested), pages)
            /\ ret.body.offset = (ret.body.page - 1) * size
            /\ arg.total > 0 => ret.body.offset < arg.total /\ ret.body.rows >= 1

\* page 999 with page_size 20 of 45 rows: the third page, of five rows
C8_Witness ==
    /\ ret.done
    /\ arg.total = 45
    /\ arg.page = [kind |-> "int", value |-> 999]
    /\ arg.page_size = [kind |-> "int", value |-> 20]
    /\ ret.body.page = 3 /\ ret.body.rows = 5

---------------------------------------------------------------------------
(* api_upload on a request of one file or several, a storage error in any  *)
(* storage call of any file's merge                                        *)

\* the storage errors of a request: none, or one in a storage call of the
\* merge of one of its files
FileFaults(files) ==
    {[file |-> 0, call |-> 0]}
        \cup {[file |-> i, call |-> c] : i \in 1..Len(files), c \in 1..MaxCall}

InitFiles ==
    /\ rows = {}
    /\ clock = 0
    /\ resp = [op |-> "none"]
    /\ served = [requests |-> 0, uploads |-> 0]
    /\ conn = Idle
    /\ arg \in {[files |-> files, fault |-> fault] :
                   files \in Requests, fault \in UNION {FileFaults(f) : f \in Requests}}
    /\ arg.fault \in FileFaults(arg.files)
    /\ ret = [done |-> FALSE]

\* the module is loaded before the request arrives
StartupFiles ==
    /\ ~ret.done
    /\ Startup

\* the request is served; before is the table it found
UploadFiles ==
    /\ ~ret.done
    /\ \E r \in {api_upload(rows, arg.files, clock, arg.fault)} :
           /\ arg.fault.file = 0 \/ r.struck
           /\ rows' = r.rows
           /\ ret' = [done |-> TRUE, status |-> r.status, files |-> r.files,
                      before |-> rows]
    /\ UNCHANGED <<clock, resp, served, conn, arg>>

NextFiles == StartupFiles \/ UploadFiles

SpecFiles == InitFiles /\ [][NextFiles]_vars

\* the label of a file of a request
LabelOf(file) == IF file.filename = "" THEN "archivo.rpt" ELSE file.filename

\* the table after the first k files of a request were merged in turn, each
\* merge committed before the next begins
RECURSIVE After(_, _, _)
After(table, files, k) ==
    IF k = 0 THEN table
    ELSE Merge(After(table, files, k - 1), Parsed[files[k].content].batch,
               LabelOf(files[k]), clock, 0).rows

\* C12 -- Per-file transactions in a multi-file upload: the response lists
\* the files merged in request order; when every file is merged the store
\* is the one that merging them in turn, each in a committed transaction,
\* gives; and when the parse or the merge of file N fails (text repair,
\* repeated key, a storage error in the lookup, a statement or the commit)
\* the store is the one that files 1..N-1 give: what they committed remains
\* and nothing of file N is stored.
C12_PerFileTransactions ==
    ret.done =>
        /\ Len(ret.files) <= Len(arg.files)
        /\ (ret.status = 200) <=> (Len(ret.files) = Len(arg.files))
        /\ ret.status \in {200, 500}
        /\ \A k \in 1..Len(ret.files) :
               /\ ret.files[k].name = LabelOf(arg.files[k])
               /\ ret.files[k].added =
                      Cardinality(After(ret.before, arg.files, k))
                          - Cardinality(After(ret.before, arg.files, k - 1))
        /\ rows = After(ret.before, arg.files, Len(ret.files))

\* a storage error after the lookup has ended the merge of the second file,
\* the first file had added rows to a store that was not empty
C12_Witness ==
    /\ ret.done /\ ret.status = 500
    /\ arg.fault.file = 2 /\ arg.fault.call >= 2
    /\ Len(ret.files) = 1 /\ ret.files[1].added >= 1
    /\ ret.before # {}
    /\ rows # ret.before

---------------------------------------------------------------------------
(* The server over restarts: how often the seed file has been ingested     *)

InitBoot ==
    /\ rows = {}
    /\ clock = 0
    /\ resp = [op |-> "none"]
    /\ served = [requests |-> 0, uploads |-> 0]
    /\ conn = Idle
    /\ arg = <<>>
    /\ ret = [seeded |-> 0]

\* the module is loaded; seeded counts the loads that ingested result.rpt
Boot ==
    /\ \E seed \in {"absent", "unreadable", "present"} :
           \E r \in {maybe_load_initial_data(rows, seed, clock)} :
               /\ rows' = r.rows
               /\ resp' = [op |-> "startup", raised |-> r.raised,
                           loaded |-> r.loaded]
               /\ ret' = [seeded |-> ret.seeded + (IF r.loaded THEN 1 ELSE 0)]
    /\ UNCHANGED <<clock, served, conn, arg>>

NextBoot == Boot \/ Upload \/ Toggle \/ DeleteResolved

SpecBoot == InitBoot /\ [][NextBoot]_vars

\* C13 -- Bootstrap: a startup ingests the seed file, with the label
\* 'result.rpt', if and only if the store is empty and the file is there
\* (and can be read); a startup with a store that is not empty leaves it as
\* it is; and over startups, uploads, toggles and bulk-clears in any order
\* the seed is ingested no more than once.
C13_Bootstrap ==
    /\ ret.seeded <= 1
    /\ \A seed \in {"absent", "present"} :
           \A r \in {maybe_load_initial_data(rows, seed, clock)} :
               /\ r.loaded <=> (rows = {} /\ seed = "present")
               /\ rows # {} => r.rows = rows
               /\ r.loaded => /\ r.rows # {}
                              /\ \A q \in r.rows : q.sources = <<"result.rpt">>

---------------------------------------------------------------------------
(* parse_rpt on texts made of lines of every kind                          *)

\* a header with two blanks before it and its labels further apart, and a
\* header that lacks the last three labels
HeaderWide ==
    <<32, 32>> \o Pad(COLUMNS[1], 10) \o Pad(COLUMNS[2], 16) \o Pad(COLUMNS[3], 8)
        \o Pad(COLUMNS[4], 12) \o Pad(COLUMNS[5], 22) \o COLUMNS[6]

HeaderPartial == Pad(COLUMNS[1], 8) \o Pad(COLUMNS[2], 15) \o COLUMNS[3]

\* a record without EmpRUC
RecNoRUC == << <<>>, <<98>>, <<110>>, DateShort, <<82>>, <<121>> >>

\* the lines of the texts: raw is the line as the file holds it, with its
\* line break (and a null character in some), text is the line without
\* them; kind tells what the line is, and layout, for a header, where its
\* labels stand when it has all six and the fallback layout when it has not
Lines ==
    << [kind |-> "blank", raw |-> <<32, 0, 32, 10>>, text |-> <<32, 32>>,
        layout |-> <<>>],
       [kind |-> "header", raw |-> HeaderLine \o <<10>>, text |-> HeaderLine,
        layout |-> <<0, 8, 23, 30, 47, 68>>],
       [kind |-> "header", raw |-> HeaderWide \o <<13, 10>>, text |-> HeaderWide,
        layout |-> <<2, 12, 28, 36, 48, 70>>],
       [kind |-> "header", raw |-> HeaderPartial \o <<10>>, text |-> HeaderPartial,
        layout |-> <<0, 12, 124, 165, 189, 209>>],
       [kind |-> "separator", raw |-> <<32>> \o SeparatorLine \o <<10>>,
        text |-> <<32>> \o SeparatorLine, layout |-> <<>>],
       [kind |-> "data", raw |-> <<0>> \o DataLine(RecOne) \o <<10>>,
        text |-> DataLine(RecOne), layout |-> <<>>],
       [kind |-> "data", raw |-> DataLine(RecTwo) \o <<13, 10>>,
        text |-> DataLine(RecTwo), layout |-> <<>>],
       [kind |-> "data", raw |-> DataLine(RecNoRUC) \o <<10>>,
        text |-> DataLine(RecNoRUC), layout |-> <<>>],
       [kind |-> "data", raw |-> DataLine(RecRaises) \o <<10>>,
        text |-> DataLine(RecRaises), layout |-> <<>>] >>

\* bound of the texts: the number of lines
MaxLines == 3

RECURSIVE Texts(_)
Texts(n) ==
    IF n = 0 THEN {<<>>}
    ELSE Texts(n - 1)
             \cup {Append(t, l) : t \in {u \in Texts(n - 1) : Len(u) = n - 1},
                                  l \in 1..Len(Lines)}

\* the text of the lines
TextOf(lines) == Concat([i \in 1..Len(lines) |-> Lines[lines[i]].raw])

InitParse ==
    /\ rows = {}
    /\ clock = 0
    /\ resp = [op |-> "none"]
    /\ served = [requests |-> 0, uploads |-> 0]
    /\ conn = Idle
    /\ arg \in Texts(MaxLines)
    /\ ret = [done |-> FALSE]

\* parse_rpt(content): whether it raises, the records when it does not, and
\* for each data line the layout it was parsed with
Parse ==
    /\ ~ret.done
    /\ \E content \in {TextOf(arg)} :
           \E data \in {DataLines(splitlines(content), None)} :
               ret' = [done    |-> TRUE,
                       raises  |-> parse_rpt_raises(content),
                       records |-> IF parse_rpt_raises(content) THEN <<>>
                                   ELSE parse_rpt(content),
                       layouts |-> [i \in 1..Len(data) |-> data[i].positions]]
    /\ UNCHANGED <<rows, clock, resp, served, conn, arg>>

NextParse == Parse

SpecParse == InitParse /\ [][NextParse]_vars

\* the numbers of the data lines among lines, in order
DataOf(lines) ==
    SelectSeq([i \in 1..Len(lines) |-> i], LAMBDA i : Lines[lines[i]].kind = "data")

\* the layout in force at line i: that of the header before it that is
\* nearest, the fallback layout when there is none
LayoutAt(lines, i) ==
    LET heads == {j \in 1..(i - 1) : Lines[lines[j]].kind = "header"}
    IN  IF heads = {} THEN <<0, 12, 124, 165, 189, 209>>
        ELSE Lines[lines[CHOOSE j \in heads : \A h \in heads : h <= j]].layout

\* the numbers of the data lines whose first column is not empty, in order
Emitting(lines) ==
    SelectSeq(DataOf(lines),
              LAMBDA i : ColumnSlice(Lines[lines[i]].text, LayoutAt(lines, i), 1) # <<>>)

\* C14 -- Parser line classification: for every text, parse_rpt returns, and
\* returns no record for blank lines, header lines (trimmed text starts
\* with 'EmpRUC'), separator lines (trimmed text starts with '---') and data
\* lines whose first column is empty, and one record, in file order and
\* with repetitions, for each other line; a header line, a data line and a
\* separator line give one record, which a merge into an empty store counts
\* as added = 1, duplicates = 0, ignored = 0.
C14_LineClassification ==
    ret.done =>
        /\ ~ret.raises
        /\ \A emit \in {Emitting(arg)} :
               ret.records = [j \in 1..Len(emit) |->
                                 parse_fixed_width_line(Lines[arg[emit[j]]].text,
                                                        LayoutAt(arg, emit[j]))]
        /\ arg = <<2, 6, 5>> =>
               /\ Len(ret.records) = 1
               /\ \A m \in {insert_records({}, ret.records, "B", clock, 0)} :
                      ~m.raised /\ m.added = 1 /\ m.duplicates = 0 /\ m.ignored = 0

\* C15 -- Layout in force: every data line is parsed with the fallback
\* layout (0, 12, 124, 165, 189, 209) when no header precedes it or when the
\* nearest header before it lacks one of the six labels, and with the six
\* offsets of the labels in that header otherwise; so a layout is the
\* fallback or the offsets of a whole header, never a mix, and a later
\* header replaces the layout for the data lines after it.
C15_LayoutInForce ==
    ret.done =>
        \A data \in {DataOf(arg)} :
            /\ Len(ret.layouts) = Len(data)
            /\ \A j \in 1..Len(data) :
                   /\ ret.layouts[j] = LayoutAt(arg, data[j])
                   /\ \/ ret.layouts[j] = FALLBACK_POSITIONS
                      \/ \E i \in 1..(data[j] - 1) :
                             /\ Lines[arg[i]].kind = "header"
                             /\ \A k \in 1..Len(COLUMNS) :
                                    /\ ret.layouts[j][k] + Len(COLUMNS[k])
                                           <= Len(Lines[arg[i]].text)
                                    /\ SubSeq(Lines[arg[i]].text, ret.layouts[j][k] + 1,
                                              ret.layouts[j][k] + Len(COLUMNS[k]))
                                           = COLUMNS[k]

\* a data line after a header with three labels, which follows a header with
\* all six, was parsed with the fallback layout
C15_Witness ==
    /\ ret.done
    /\ Len(arg) = 3
    /\ Lines[arg[1]].kind = "header" /\ Lines[arg[1]].layout # FALLBACK_POSITIONS
    /\ arg[2] = 4
    /\ Lines[arg[3]].kind = "data"
    /\ ret.layouts = <<FALLBACK_POSITIONS>>

---------------------------------------------------------------------------
(* fix_text on short strings                                               *)

\* the characters of the strings: the marker '?', a letter, the two bytes of
\* a twice-encoded e-acute, an e-acute, a euro sign and a combining acute
Chars == {63, 97, 195, 169, 233, 8364, 769}

\* bound of the strings: their length
MaxLen == 3

RECURSIVE Strings(_)
Strings(n) ==
    IF n = 0 THEN {<<>>}
    ELSE Strings(n - 1)
             \cup {Append(s, c) : s \in {u \in Strings(n - 1) : Len(u) = n - 1},
                                  c \in Chars}

InitRepair ==
    /\ rows = {}
    /\ clock = 0
    /\ resp = [op |-> "none"]
    /\ served = [requests |-> 0, uploads |-> 0]
    /\ conn = Idle
    /\ arg \in Strings(MaxLen)
    /\ ret = [done |-> FALSE]

\* fix_text(value), and what becomes of a record and of a data line whose
\* rejection detail is value: the first loop of insert_records and parse_rpt
Repair ==
    /\ ~ret.done
    /\ \E record \in {<< <<49>>, <<97>>, <<110>>, <<>>, <<82>>, arg >>} :
           ret' = [done    |-> TRUE,
                   raises  |-> fix_text_raises(arg),
                   value   |-> IF fix_text_raises(arg) THEN None ELSE fix_text(arg),
                   prepare |-> prepare_raises(<<record>>),
                   parse   |-> parse_rpt_raises(HeaderLine \o <<10>> \o DataLine(record))]
    /\ UNCHANGED <<rows, clock, resp, served, conn, arg>>

NextRepair == Repair

SpecRepair == InitRepair /\ [][NextRepair]_vars

\* C16 -- Repair and parsing never fail: for every string, one with the
\* marker and a character that is no single byte included, fix_text does not
\* raise and returns the string decoded anew or the string as it is; and
\* parse_rpt and the repair step of insert_records complete on a data line
\* and on a record that hold the string.
C16_RepairNeverFails ==
    ret.done =>
        /\ ~ret.raises
        /\ \/ ret.value = arg
           \/ /\ \E i \in 1..Len(arg) : arg[i] = Marker
              /\ Utf8Encode(ret.value) = arg
        /\ ~ret.prepare
        /\ ~ret.parse

---------------------------------------------------------------------------
(* Two merge calls, some time apart, and the order of the query            *)

RecThree == << <<52>>, <<100>>, <<110>>, DateLong, <<82>>, <<122>> >>

\* bounds of the calls: the records of a batch and the milliseconds between
\* the calls
MaxBatch == 3
MaxElapsed == 2

RECURSIVE Batches(_)
Batches(n) ==
    IF n = 0 THEN {<<>>}
    ELSE Batches(n - 1)
             \cup {Append(b, r) : b \in {u \in Batches(n - 1) : Len(u) = n - 1},
                                  r \in {RecOne, RecTwo, RecThree}}

\* a < b for TEXT values: SQLite compares the bytes, and UTF-8 keeps the
\* order of the code points
TextLess(a, b) ==
    \E i \in 1..(Min(Len(a), Len(b)) + 1) :
        /\ \A j \in 1..(i - 1) : a[j] = b[j]
        /\ IF i > Len(a) THEN i <= Len(b)
           ELSE i <= Len(b) /\ a[i] < b[i]

\* ORDER BY created_at, id
Precedes(r, q) ==
    \/ r.created_at < q.created_at
    \/ r.created_at = q.created_at /\ TextLess(r.id, q.id)

\* the rows query of api_rows without filters, all rows on one page: the ids
\* in the order of the response
rows_query(table) ==
    [i \in 1..Cardinality(table) |->
        (CHOOSE r \in table : Cardinality({q \in table : Precedes(q, r)}) = i - 1).id]

InitOrder ==
    /\ rows = {}
    /\ clock = 0
    /\ resp = [op |-> "none"]
    /\ served = [requests |-> 0, uploads |-> 0]
    /\ conn = Idle
    /\ arg \in [first   : Batches(MaxBatch) \ {<<>>},
                second  : Batches(MaxBatch) \ {<<>>},
                elapsed : 0..MaxElapsed]
    /\ ret = [step |-> 0, first |-> {}, second |-> {}, listed |-> <<>>]

\* insert_records(arg.first, 'archivo.rpt'); first: the ids it inserted
MergeFirst ==
    /\ ret.step = 0
    /\ \E r \in {insert_records(rows, arg.first, "archivo.rpt", clock, 0)} :
           /\ rows' = r.rows
           /\ ret' = [ret EXCEPT !.step = 1,
                                 !.first = {q.id : q \in r.rows} \ {q.id : q \in rows}]
    /\ UNCHANGED <<clock, resp, served, conn, arg>>

\* time passes between the calls
Elapse ==
    /\ ret.step = 1
    /\ clock' = clock + arg.elapsed
    /\ ret' = [ret EXCEPT !.step = 2]
    /\ UNCHANGED <<rows, resp, served, conn, arg>>

\* insert_records(arg.second, 'B'); second: the ids it inserted
MergeSecond ==
    /\ ret.step = 2
    /\ \E r \in {insert_records(rows, arg.second, "B", clock, 0)} :
           /\ rows' = r.rows
           /\ ret' = [ret EXCEPT !.step = 3,
                                 !.second = {q.id : q \in r.rows} \ {q.id : q \in rows}]
    /\ UNCHANGED <<clock, resp, served, conn, arg>>

\* GET /api/rows
QueryOrder ==
    /\ ret.step = 3
    /\ ret' = [ret EXCEPT !.step = 4, !.listed = rows_query(rows)]
    /\ UNCHANGED <<rows, clock, resp, served, conn, arg>>

NextOrder == MergeFirst \/ Elapse \/ MergeSecond \/ QueryOrder

SpecOrder == InitOrder /\ [][NextOrder]_vars

\* where id stands in the response
PlaceOf(listed, id) == CHOOSE i \in 1..Len(listed) : listed[i] = id

\* of the rows that a call inserted, one whose record comes earlier in the
\* batch has the smaller created_at
Increasing(batch, inserted) ==
    \A i, j \in 1..Len(batch) :
        (/\ i < j
         /\ Candidate(batch[i]).key \in inserted
         /\ Candidate(batch[j]).key \in inserted
         /\ Candidate(batch[i]).key # Candidate(batch[j]).key) =>
            RowOf(rows, Candidate(batch[i]).key).created_at
                < RowOf(rows, Candidate(batch[j]).key).created_at

\* C18 -- Insertion order: the query lists the rows by created_at, then key;
\* the rows that one merge call inserts have created_at strictly increasing
\* in batch order; and every row of an earlier committed call has a
\* created_at not greater than, and is listed before, every row that a
\* later call inserts, whatever the sizes of the batches and the time
\* between the calls.
C18_InsertionOrder ==
    ret.step = 4 =>
        /\ Len(ret.listed) = Cardinality(rows)
        /\ \A i, j \in 1..Len(ret.listed) :
               i < j => Precedes(RowOf(rows, ret.listed[i]), RowOf(rows, ret.listed[j]))
        /\ Increasing(arg.first, ret.first)
        /\ Increasing(arg.second, ret.second)
        /\ \A a \in ret.first, b \in ret.second :
               /\ RowOf(rows, a).created_at <= RowOf(rows, b).created_at
               /\ PlaceOf(ret.listed, a) < PlaceOf(ret.listed, b)

\* C19 -- Repeated key inside one batch: on every store, an insert_records
\* call whose batch holds two or more candidates with one key that is not
\* stored completes without error, and after it the store holds one row for
\* that key and one row for every other key of the batch.
C19_RepeatedKeyInBatch ==
    \A batch \in {arg.first, arg.second} :
        (\E i, j \in 1..Len(batch) :
             /\ i < j
             /\ Candidate(batch[i]).key = Candidate(batch[j]).key
             /\ Candidate(batch[i]).key \notin Ids(rows)) =>
            \A m \in {insert_records(rows, batch, "B", clock, 0)} :
                /\ ~m.raised
                /\ \A i \in 1..Len(batch) :
                       Cardinality({q \in m.rows : q.id = Candidate(batch[i]).key}) = 1

=============================================================================
